---- MODULE Spec2Model ----
(***************************************************************************)
(* sonik: the playback queue (application/queue.rs), the controller state  *)
(* and the audio engine with their three channels (application/state.rs),  *)
(* and the library builder, loader and search dispatch                     *)
(* (storage/database.rs).                                                  *)
(*                                                                         *)
(* Strings are sequences of character codes, so that to_lowercase and the  *)
(* byte-wise ordering of String are computed, not assumed.                 *)
(***************************************************************************)
EXTENDS Integers, Sequences, FiniteSets, TLC

VARIABLES
    queue,          \* SonikQueue: [tracks, total_time]
    last,           \* the last queue operation: [op, pre, fifo, arg, ret]
    added,          \* tracks passed to add since the queue was last new/cleared
    taken,          \* tracks returned by take since the queue was last new/cleared
    fifo,           \* TRUE while the queue was filled by add calls only
    nops,           \* number of queue operations performed
    visited,        \* create_and_load_database: the entries the walk has yielded, in order
    artists,        \* create_and_load_database: the Vec<Artist> the walk fills
    bpc,            \* create_and_load_database: "walk", "done", "stat_panic", "write_panic"
    library,        \* the Library create_and_load_database returned
    snapshot,       \* the bytes of the file at config.database_path
    loaded,         \* the Library load_database returned
    tabs_index,     \* UI.tabs.index
    lib_cols,       \* UI.lib_cols: [artists, albums, tracks, current_active]
    fuzzy_searcher, \* UI.fuzzy_searcher: the EngineGroup
    search_results, \* UI.search_results: Vec<Media>
    search_select,  \* UI.search_select
    ui_pc,          \* the controller: "run", or "panic" after an index out of bounds
    ui_last,        \* the last controller operation: [op, tab, col, pre, sel]
    query,          \* the terms of the last SearchQuery given to search
    extras,         \* the keys the similarity measure let through besides the exact matches
    result,         \* the SearchResult of the last search
    now_playing,    \* UI.now_playing
    search_input,   \* UI.search_input
    tx,             \* the Track channel, controller to engine (UI.tx, Audio.trx)
    ptx,            \* the control channel, controller to engine (UI.ptx, Audio.prx)
    rx,             \* the exhaustion channel, engine to controller (Audio.btx, UI.rx)
    sink,           \* Audio.sink: [source, paused]
    audio_pc,       \* the engine thread: "run", or "panic" after an unwrap of Err
    audio_last,     \* the last engine step: [op, arg, pre, twice]
    sent,           \* the track last sent on the Track channel since the last clear_queue
    play_last,      \* the last playback operation of the controller: [op, pre, results, input]
    overflow_checks \* TRUE when the build panics on integer overflow (debug profile),
                    \* FALSE when it wraps (release profile)

queueHist == <<last, added, taken, fifo, nops>>

queueVars == <<queue, queueHist>>

buildVars == <<visited, artists, bpc, library, snapshot, loaded>>

uiVars == <<tabs_index, lib_cols, fuzzy_searcher, search_results, search_select, ui_pc, ui_last>>

searchVars == <<query, extras, result>>

ctlVars == <<now_playing, search_input, sent, play_last>>

chanVars == <<tx, ptx, rx>>

audioVars == <<sink, audio_pc, audio_last>>

playVars == <<ctlVars, chanVars, audioVars>>

vars == <<queueVars, buildVars, uiVars, searchVars, playVars, overflow_checks>>

----------------------------------------------------------------------------
\* Bounds of the model.

\* longest queue the model builds
MaxQueue == 3
\* number of queue operations in one run of the queue specification
MaxOps == 5
\* number of entries the walk of the music folder yields
MaxFiles == 3
\* number of keys a fuzzy match may return besides the exact matches
MaxFuzzy == 2
\* longest queue the controller builds
MaxUIQueue == 3
\* longest queue of a playback run
MaxPlayQueue == 2
\* most messages in flight on one channel
MaxChan == 1
\* number of steps the search selection is taken down from usize::MAX
MaxBelow == 1

----------------------------------------------------------------------------
\* Strings.

sAlpha == <<65, 108, 112, 104, 97>>
sbeta  == <<98, 101, 116, 97>>
sgamma == <<103, 97, 109, 109, 97>>
sGamma == <<71, 97, 109, 109, 97>>
sX     == <<88>>
sY     == <<89>>
sone   == <<111, 110, 101>>
stwo   == <<116, 119, 111>>
sempty == <<>>

----------------------------------------------------------------------------
\* Tracks (storage/record.rs is outside the sources: the fields are the ones
\* the sources read, title, album, album_artist, year, duration, file_path).

Track(title, album, album_artist, year, duration, file_path) ==
    [title |-> title, album |-> album, album_artist |-> album_artist,
     year |-> year, duration |-> duration, file_path |-> file_path]

\* 'a'..'f' followed by ".mp3", ".flac", ".ogg"
pMp3(c)  == <<c, 46, 109, 112, 51>>
pFlac(c) == <<c, 46, 102, 108, 97, 99>>
pOgg(c)  == <<c, 46, 111, 103, 103>>

tA1 == Track(sone, sX, sAlpha, 1999, 100, pMp3(97))
tA2 == Track(stwo, sX, sAlpha, 1999, 200, pFlac(98))
tA3 == Track(sone, sY, sAlpha, 2004, 200, pOgg(99))
tB1 == Track(sone, sX, sbeta, 2004, 100, pMp3(100))
\* the title track of a self-titled album
tG1 == Track(sgamma, sgamma, sgamma, -1, 300, pOgg(101))
tG2 == Track(stwo, sX, sGamma, 1999, 100, pFlac(102))
\* a third track of the album X of Alpha
tA4 == Track(sgamma, sX, sAlpha, 1999, 300, pOgg(103))

\* Track::dummy(): the sentinel with the empty title
dummy == Track(sempty, sempty, sempty, 0, 0, sempty)

----------------------------------------------------------------------------
\* SonikQueue (application/queue.rs).  total_time is a u32; the durations and
\* queue lengths of the model keep every sum far below 2^32, so the additions
\* are written without the wrap.

SonikQueue_new == [tracks |-> <<>>, total_time |-> 0]

\* a variant of add that inserts at the head
add_front_first(q, track) ==
    [tracks |-> <<track>> \o q.tracks,
     total_time |-> q.total_time + track.duration]

\* a variant of add that leaves total_time alone
add_forgets_time(q, track) ==
    [tracks |-> Append(q.tracks, track), total_time |-> q.total_time]

\* self.total_time += &track.duration; self.tracks.push(track);
add(q, track) ==
    [tracks |-> Append(q.tracks, track),
     total_time |-> q.total_time + track.duration]

\* add_to_front(track): inserts at the head, same duration bookkeeping
add_to_front(q, track) ==
    [tracks |-> <<track>> \o q.tracks,
     total_time |-> q.total_time + track.duration]

\* take(): removes and returns the head, decrementing total duration
take(q) ==
    [ret |-> Head(q.tracks),
     q |-> [tracks |-> Tail(q.tracks),
            total_time |-> q.total_time - Head(q.tracks).duration]]

\* a variant of clear that leaves total_time alone
clear_keeps_time(q) == [tracks |-> <<>>, total_time |-> q.total_time]

\* self.tracks.clear(); self.total_time = 0;
clear(q) == [tracks |-> <<>>, total_time |-> 0]

\* a swap that copies instead of exchanging
swap_overwrites(s, i, j) == [s EXCEPT ![i] = s[j]]

\* slice.swap(i, j), 1-based
swap(s, i, j) == [s EXCEPT ![i] = s[j], ![j] = s[i]]

RECURSIVE shuffle_from(_, _)
\* SliceRandom::shuffle: for i in (1..len).rev() { swap(i, gen_range(0, i + 1)) }
\* with every outcome of the random number generator.
shuffle_from(s, i) ==
    IF i <= 1 THEN {s}
    ELSE UNION {shuffle_from(swap(s, i, j), i - 1) : j \in 1..i}

\* self.tracks.shuffle(&mut thread_rng()): the set of possible results
shuffle(q) ==
    {[tracks |-> s, total_time |-> q.total_time] : s \in shuffle_from(q.tracks, Len(q.tracks))}

----------------------------------------------------------------------------
\* String operations of the standard library, on character codes.

\* char::to_lowercase on ASCII
lower_char(c) == IF c >= 65 /\ c <= 90 THEN c + 32 ELSE c

\* String::to_lowercase
to_lowercase(s) == [i \in 1..Len(s) |-> lower_char(s[i])]

RECURSIVE str_less(_, _)
\* String's Ord: byte-wise lexicographic, a < b
str_less(a, b) ==
    IF b = <<>> THEN FALSE
    ELSE IF a = <<>> THEN TRUE
    ELSE IF Head(a) # Head(b) THEN Head(a) < Head(b)
    ELSE str_less(Tail(a), Tail(b))

str_le(a, b) == a = b \/ str_less(a, b)

\* index of the last '.' of a file name, 0 when there is none
last_dot(p) ==
    LET dots == {i \in 1..Len(p) : p[i] = 46}
    IN  IF dots = {} THEN 0 ELSE CHOOSE i \in dots : \A j \in dots : j <= i

\* Option<T>: None is the empty sequence, Some(x) the sequence of x alone
None == <<>>
Some(x) == <<x>>

\* Path::extension: the part of the file name after its last '.', None when
\* the name has no '.' or only a leading one
extension(p) ==
    IF last_dot(p) <= 1 THEN None ELSE Some(SubSeq(p, last_dot(p) + 1, Len(p)))

sMp3  == <<109, 112, 51>>
sFlac == <<102, 108, 97, 99>>
sOgg  == <<111, 103, 103>>

----------------------------------------------------------------------------
\* Library Builder (storage/database.rs).

\* A directory entry arts the walk, fs::metadata and Track::new see it:
\*   walk_ok  the Walk iterator yielded Ok(entry)
\*   stat     "file", "dir", or "err" when fs::metadata fails (a dangling
\*            symlink, an entry removed after it was listed)
\*   tags     the Track that Track::new parses from the file, None on Err
Entry(path, walk_ok, stat, tags) ==
    [path |-> path, walk_ok |-> walk_ok, stat |-> stat, tags |-> tags]

Tree ==
    { Entry(tA1.file_path, TRUE, "file", Some(tA1)),
      Entry(tA2.file_path, TRUE, "file", Some(tA2)),
      Entry(tA3.file_path, TRUE, "file", Some(tA3)),
      Entry(tB1.file_path, TRUE, "file", Some(tB1)),
      Entry(tG1.file_path, TRUE, "file", Some(tG1)),
      Entry(tG2.file_path, TRUE, "file", Some(tG2)),
      \* g.MP3: upper-case extension, tags would parse
      Entry(<<103, 46, 77, 80, 51>>, TRUE, "file",
            Some(Track(sone, sX, sAlpha, 1999, 100, <<103, 46, 77, 80, 51>>))),
      \* h.txt
      Entry(<<104, 46, 116, 120, 116>>, TRUE, "file", None),
      \* i.mp3 is a directory
      Entry(pMp3(105), TRUE, "dir", None),
      \* j.mp3 whose tags do not parse
      Entry(pMp3(106), TRUE, "file", None),
      \* k: no extension
      Entry(<<107>>, TRUE, "file", None),
      \* an entry the walk reports arts Err
      Entry(pMp3(108), FALSE, "file", None),
      \* m.mp3: fs::metadata fails
      Entry(pMp3(109), TRUE, "err", None) }

\* is_music, for an entry whose fs::metadata succeeded
is_music(entry) ==
    IF entry.stat = "dir" THEN FALSE
    ELSE IF extension(entry.path) # None
         THEN extension(entry.path) \in {Some(sMp3), Some(sFlac), Some(sOgg)}
         ELSE FALSE

\* Artist::new, Album::new
Artist(title, albums) == [title |-> title, albums |-> albums]
Album(title, artist, year, tracks) ==
    [title |-> title, artist |-> artist, year |-> year, tracks |-> tracks]

\* Album::update_album: appends the track
update_album(album, t) == [album EXCEPT !.tracks = Append(@, t)]

\* Artist::add_album: appends the album
add_album(artist, album) == [artist EXCEPT !.albums = Append(@, album)]

\* iter().position(|x| x.title == title): first index, 0 for None
position(s, title) ==
    LET hits == {i \in 1..Len(s) : s[i].title = title}
    IN  IF hits = {} THEN 0 ELSE CHOOSE i \in hits : \A j \in hits : i <= j

\* a variant of add_to_database that finds the artist whatever the case
add_to_database_any_case(artist_name, album_title, album_year, t, arts) ==
    LET lowered == [i \in 1..Len(arts) |-> [title |-> to_lowercase(arts[i].title)]]
        idx == position(lowered, to_lowercase(artist_name))
        album == Album(album_title, artist_name, album_year, <<t>>)
    IN  IF idx # 0
        THEN LET al_idx == position(arts[idx].albums, album_title)
             IN  IF al_idx # 0
                 THEN [arts EXCEPT ![idx].albums[al_idx] = update_album(@, t)]
                 ELSE [arts EXCEPT ![idx] = add_album(@, album)]
        ELSE Append(arts, add_album(Artist(artist_name, <<>>), album))

add_to_database(artist_name, album_title, album_year, t, arts) ==
    LET idx == position(arts, artist_name)
        album == Album(album_title, artist_name, album_year, <<t>>)
    IN  IF idx # 0
        THEN LET al_idx == position(arts[idx].albums, album_title)
             IN  IF al_idx # 0
                 THEN [arts EXCEPT ![idx].albums[al_idx] = update_album(@, t)]
                 ELSE [arts EXCEPT ![idx] = add_album(@, album)]
        ELSE Append(arts, add_album(Artist(artist_name, <<>>), album))

add_to_database_helper(t, arts) ==
    add_to_database(t.album_artist, t.album, t.year, t, arts)

\* a variant of sort_key that compares the titles as they are
sort_key_keeps_case(a) == a.title

\* the comparison key of the sort: a.title.to_lowercase()
sort_key(a) == to_lowercase(a.title)

\* one insertion of a stable sort: a goes after every element whose key is
\* not greater than its own
sort_insert(sorted, a) ==
    LET n == Cardinality({i \in 1..Len(sorted) : str_le(sort_key(sorted[i]), sort_key(a))})
    IN  SubSeq(sorted, 1, n) \o <<a>> \o SubSeq(sorted, n + 1, Len(sorted))

RECURSIVE sort_by(_)
\* artists.sort_by(|a, b| a.title.to_lowercase().cmp(&b.title.to_lowercase())):
\* a stable sort
sort_by(arts) ==
    IF arts = <<>> THEN <<>>
    ELSE sort_insert(sort_by(SubSeq(arts, 1, Len(arts) - 1)), arts[Len(arts)])

RECURSIVE concat(_)
\* the concatenation of a sequence of byte strings
concat(ss) == IF ss = <<>> THEN <<>> ELSE Head(ss) \o concat(Tail(ss))

\* bincode, fixed-width little-endian integers.  Lengths are u64; the model's
\* lengths stay below 2^16, so the upper six bytes are written as zeros.
u64_le(n) == <<n % 256, (n \div 256) % 256, 0, 0, 0, 0, 0, 0>>

\* a variant of i32_le that writes the magnitude
i32_le_drops_sign(n) ==
    LET m == IF n < 0 THEN -n ELSE n
    IN  <<m % 256, (m \div 256) % 256, (m \div 65536) % 256, (m \div 16777216) % 256>>

\* two's complement, four bytes (also the encoding of a u32 such as duration)
i32_le(n) ==
    <<n % 256, (n \div 256) % 256, (n \div 65536) % 256, (n \div 16777216) % 256>>

ser_str(s) == u64_le(Len(s)) \o s

ser_track(t) ==
    ser_str(t.title) \o ser_str(t.album) \o ser_str(t.album_artist)
        \o i32_le(t.year) \o i32_le(t.duration) \o ser_str(t.file_path)

ser_album(a) ==
    ser_str(a.title) \o ser_str(a.artist) \o i32_le(a.year)
        \o u64_le(Len(a.tracks)) \o concat([k \in 1..Len(a.tracks) |-> ser_track(a.tracks[k])])

ser_artist(a) ==
    ser_str(a.title)
        \o u64_le(Len(a.albums)) \o concat([j \in 1..Len(a.albums) |-> ser_album(a.albums[j])])

\* serialize_into(&mut f, &artists)
serialize(arts) ==
    u64_le(Len(arts)) \o concat([i \in 1..Len(arts) |-> ser_artist(arts[i])])

\* let x = value; F(x): the value is computed once and F reads the result
Let(value, F(_)) == CHOOSE r \in {F(x) : x \in {value}} : TRUE

\* The decoders read at position p and return the value and the next position.
de_u64(b, p) == [val |-> b[p] + 256 * b[p + 1], pos |-> p + 8]

de_u32(b, p) ==
    [val |-> b[p] + 256 * b[p + 1] + 65536 * b[p + 2] + 16777216 * b[p + 3],
     pos |-> p + 4]

de_i32(b, p) ==
    [val |-> b[p] + 256 * b[p + 1] + 65536 * b[p + 2]
                + 16777216 * (IF b[p + 3] >= 128 THEN b[p + 3] - 256 ELSE b[p + 3]),
     pos |-> p + 4]

de_str(b, p) ==
    Let(de_u64(b, p), LAMBDA n :
        [val |-> SubSeq(b, n.pos, n.pos + n.val - 1), pos |-> n.pos + n.val])

de_track(b, p) ==
    Let(de_str(b, p), LAMBDA title :
    Let(de_str(b, title.pos), LAMBDA album :
    Let(de_str(b, album.pos), LAMBDA album_artist :
    Let(de_i32(b, album_artist.pos), LAMBDA year :
    Let(de_u32(b, year.pos), LAMBDA duration :
    Let(de_str(b, duration.pos), LAMBDA file_path :
        [val |-> Track(title.val, album.val, album_artist.val, year.val,
                       duration.val, file_path.val),
         pos |-> file_path.pos]))))))

RECURSIVE de_tracks(_, _, _)
de_tracks(b, p, n) ==
    IF n = 0 THEN [val |-> <<>>, pos |-> p]
    ELSE Let(de_track(b, p), LAMBDA t :
         Let(de_tracks(b, t.pos, n - 1), LAMBDA rest :
             [val |-> <<t.val>> \o rest.val, pos |-> rest.pos]))

de_album(b, p) ==
    Let(de_str(b, p), LAMBDA title :
    Let(de_str(b, title.pos), LAMBDA artist :
    Let(de_i32(b, artist.pos), LAMBDA year :
    Let(de_u64(b, year.pos), LAMBDA n :
    Let(de_tracks(b, n.pos, n.val), LAMBDA tracks :
        [val |-> Album(title.val, artist.val, year.val, tracks.val),
         pos |-> tracks.pos])))))

RECURSIVE de_albums(_, _, _)
de_albums(b, p, n) ==
    IF n = 0 THEN [val |-> <<>>, pos |-> p]
    ELSE Let(de_album(b, p), LAMBDA a :
         Let(de_albums(b, a.pos, n - 1), LAMBDA rest :
             [val |-> <<a.val>> \o rest.val, pos |-> rest.pos]))

de_artist(b, p) ==
    Let(de_str(b, p), LAMBDA title :
    Let(de_u64(b, title.pos), LAMBDA n :
    Let(de_albums(b, n.pos, n.val), LAMBDA albums :
        [val |-> Artist(title.val, albums.val), pos |-> albums.pos])))

RECURSIVE de_artists(_, _, _)
de_artists(b, p, n) ==
    IF n = 0 THEN [val |-> <<>>, pos |-> p]
    ELSE Let(de_artist(b, p), LAMBDA a :
         Let(de_artists(b, a.pos, n - 1), LAMBDA rest :
             [val |-> <<a.val>> \o rest.val, pos |-> rest.pos]))

\* deserialize_from(&mut library_reader): Err when the file ends before the
\* length prefix (the only malformed file the builder can leave behind)
deserialize(b) ==
    IF Len(b) < 8 THEN None
    ELSE Some(de_artists(b, de_u64(b, 1).pos, de_u64(b, 1).val).val)

\* one iteration of the loop over Walk::new(&config.music_folder):
\* the Vec<Artist> after it and whether is_music panicked
visit(entry, arts) ==
    IF ~entry.walk_ok THEN [artists |-> arts, panic |-> FALSE]
    ELSE IF entry.stat = "err" THEN [artists |-> arts, panic |-> TRUE]
    ELSE IF is_music(entry) /\ entry.tags # None
         THEN [artists |-> add_to_database_helper(entry.tags[1], arts), panic |-> FALSE]
         ELSE [artists |-> arts, panic |-> FALSE]

\* a variant of finish that serializes before it sorts
finish_writes_before_sort(arts) ==
    [snapshot |-> serialize(arts), ret |-> sort_by(arts)]

\* the end of create_and_load_database: sort, serialize, return
finish(arts) ==
    LET sorted == sort_by(arts)
    IN  [snapshot |-> serialize(sorted), ret |-> sorted]

\* load_database: the Library, or the panic of expect("Could not deserialize")
load_database(file) ==
    Let(deserialize(file), LAMBDA artists_read :
        IF artists_read = None THEN [st |-> "panic", lib |-> <<>>]
        ELSE [st |-> "ok", lib |-> artists_read[1]])

RECURSIVE ingest(_)
\* the walk over files that are all eligible
ingest(tracks) ==
    IF tracks = <<>> THEN <<>>
    ELSE add_to_database_helper(tracks[Len(tracks)], ingest(SubSeq(tracks, 1, Len(tracks) - 1)))

\* the library the controller runs on: Alpha (X: one, two; Y: one), beta (X: one)
Database == finish(ingest(<<tB1, tA1, tA2, tA3>>)).ret

\* a library of one album of three tracks: Alpha (X: one, two, gamma)
Database3 == finish(ingest(<<tA1, tA2, tA4>>)).ret

\* a library of four artists, with "gamma" as an artist, an album and a track
Database6 == finish(ingest(<<tB1, tG2, tA1, tG1, tA2, tA3>>)).ret

----------------------------------------------------------------------------
\* Search Engine Group (storage/database.rs).  Indices and coordinates count
\* from 0 as in the code; At reads a Vec at such an index.

At(s, i) == s[i + 1]

\* the entries an index holds: [key, text], keys <<i>>, <<i, j>>, <<i, j, k>>
IndexEntry(key, text) == [key |-> key, text |-> text]

artist_entries(records) ==
    [i \in 1..Len(records) |-> IndexEntry(<<i - 1>>, records[i].title)]

album_entries(records) ==
    concat([i \in 1..Len(records) |->
        [j \in 1..Len(records[i].albums) |->
            IndexEntry(<<i - 1, j - 1>>, records[i].albums[j].title)]])

track_entries(records) ==
    concat([i \in 1..Len(records) |->
        concat([j \in 1..Len(records[i].albums) |->
            [k \in 1..Len(records[i].albums[j].tracks) |->
                IndexEntry(<<i - 1, j - 1, k - 1>>, records[i].albums[j].tracks[k].title)]])])

\* a variant of create_fuzzy_searcher that counts the tracks of an album from 1
create_fuzzy_searcher_from_one(records) ==
    [artists |-> [kind |-> "Artists", index |-> artist_entries(records)],
     albums  |-> [kind |-> "Albums", index |-> album_entries(records)],
     tracks  |-> [kind |-> "Tracks",
                  index |-> [n \in 1..Len(track_entries(records)) |->
                      IndexEntry(<<track_entries(records)[n].key[1],
                                   track_entries(records)[n].key[2],
                                   track_entries(records)[n].key[3] + 1>>,
                                 track_entries(records)[n].text)]]]

\* create_fuzzy_searcher
create_fuzzy_searcher(records) ==
    [artists |-> [kind |-> "Artists", index |-> artist_entries(records)],
     albums  |-> [kind |-> "Albums", index |-> album_entries(records)],
     tracks  |-> [kind |-> "Tracks", index |-> track_entries(records)]]

\* SimSearch::search: approximate, case-insensitive matching.  An entry whose
\* text equals the query up to case always matches; which other entries the
\* similarity measure lets through is left open: near is any set of keys.
\* The result lists the matching keys in index order (the ranking is the
\* matching engine's own and no property reads it).
sim_search(index, query_str, near) ==
    LET Hit(e) == \/ to_lowercase(e.text) = to_lowercase(query_str)
                  \/ e.key \in near
        hits == SelectSeq(index, Hit)
    IN  [n \in 1..Len(hits) |-> hits[n].key]

\* Engine::search: the variant of the engine decides the variant of the result
Engine_search(e, query_str, near) ==
    [kind |-> e.kind, keys |-> sim_search(e.index, query_str, near)]

\* SearchQuery { terms }: Term::Title(s), Term::Album(s), Term::Artist(s)
Term(tag, s) == [tag |-> tag, s |-> s]

\* a variant of search that sends a title query to the album index
search_title_in_albums(engine, terms, near) ==
    IF terms.tag = "Title" THEN Engine_search(engine.albums, terms.s, near)
    ELSE IF terms.tag = "Album" THEN Engine_search(engine.albums, terms.s, near)
    ELSE Engine_search(engine.artists, terms.s, near)

\* search(engine, query): match query.terms
search(engine, terms, near) ==
    IF terms.tag = "Title" THEN Engine_search(engine.tracks, terms.s, near)
    ELSE IF terms.tag = "Album" THEN Engine_search(engine.albums, terms.s, near)
    ELSE Engine_search(engine.artists, terms.s, near)

----------------------------------------------------------------------------
\* Controller state (application/state.rs).

\* TabsState::new(vec!["queue", "library", "search"]).titles.len()
NumTabs == 3

\* TabsState::next
tabs_next(index) == (index + 1) % NumTabs

\* TabsState::previous
tabs_previous(index) == IF index > 0 THEN index - 1 ELSE NumTabs - 1

\* ListState::new
ListState_new(items) == [items |-> items, selected |-> 0]

\* ListState::select_previous (items is never empty in the libraries used)
select_previous(ls) ==
    [ls EXCEPT !.selected = IF ls.selected > 0 THEN ls.selected - 1 ELSE Len(ls.items) - 1]

\* ListState::select_next
select_next(ls) == [ls EXCEPT !.selected = (ls.selected + 1) % Len(ls.items)]

\* the selected item of a column
selected_item(ls) == At(ls.items, ls.selected)

\* UI::new: the three columns over the database
LibraryCols_new(database) ==
    LET art_col == ListState_new(database)
        al_col == ListState_new(selected_item(art_col).albums)
        tr_col == ListState_new(selected_item(al_col).tracks)
    IN  [artists |-> art_col, albums |-> al_col, tracks |-> tr_col, current_active |-> 0]

\* LibraryCols::switch_left
switch_left(lc) ==
    IF lc.current_active > 0 THEN [lc EXCEPT !.current_active = @ - 1] ELSE lc

\* LibraryCols::switch_right
switch_right(lc) ==
    IF lc.current_active < 2 THEN [lc EXCEPT !.current_active = @ + 1] ELSE lc

\* the columns right of the artist column, refreshed
refresh_albums(lc) ==
    LET albums == ListState_new(selected_item(lc.artists).albums)
    IN  [lc EXCEPT !.albums = albums,
                   !.tracks = ListState_new(selected_item(albums).tracks)]

\* the track column, refreshed
refresh_tracks(lc) ==
    [lc EXCEPT !.tracks = ListState_new(selected_item(lc.albums).tracks)]

\* a variant of on_up that leaves the track column as it is when the album
\* selection moves
on_up_keeps_tracks(lc) ==
    IF lc.current_active = 0
    THEN refresh_albums([lc EXCEPT !.artists = select_previous(@)])
    ELSE IF lc.current_active = 1
    THEN [lc EXCEPT !.albums = select_previous(@)]
    ELSE IF lc.current_active = 2
    THEN [lc EXCEPT !.tracks = select_previous(@)]
    ELSE lc

\* LibraryCols::on_up
on_up(lc) ==
    IF lc.current_active = 0
    THEN refresh_albums([lc EXCEPT !.artists = select_previous(@)])
    ELSE IF lc.current_active = 1
    THEN refresh_tracks([lc EXCEPT !.albums = select_previous(@)])
    ELSE IF lc.current_active = 2
    THEN [lc EXCEPT !.tracks = select_previous(@)]
    ELSE lc

\* LibraryCols::on_down
on_down(lc) ==
    IF lc.current_active = 0
    THEN refresh_albums([lc EXCEPT !.artists = select_next(@)])
    ELSE IF lc.current_active = 1
    THEN refresh_tracks([lc EXCEPT !.albums = select_next(@)])
    ELSE IF lc.current_active = 2
    THEN [lc EXCEPT !.tracks = select_next(@)]
    ELSE lc

\* Media::Artist, Media::Album, Media::Track
Media(kind, item) == [kind |-> kind, item |-> item]

RECURSIVE add_all(_, _)
\* for t in tracks { self.queue.add(t.clone()) }
add_all(q, tracks) ==
    IF tracks = <<>> THEN q ELSE add_all(add(q, Head(tracks)), Tail(tracks))

RECURSIVE add_all_albums(_, _)
\* for a in albums { for t in &a.tracks { self.queue.add(t.clone()) } }
add_all_albums(q, albums) ==
    IF albums = <<>> THEN q
    ELSE add_all_albums(add_all(q, Head(albums).tracks), Tail(albums))

RECURSIVE iter_to_front(_, _)
\* a variant of pop_to_front that inserts in list order
iter_to_front(q, tracklist) ==
    IF tracklist = <<>> THEN q
    ELSE iter_to_front(add_to_front(q, Head(tracklist)), Tail(tracklist))

RECURSIVE pop_to_front(_, _)
\* while let Some(t) = tracklist.pop() { self.queue.add_to_front(t) }
pop_to_front(q, tracklist) ==
    IF tracklist = <<>> THEN q
    ELSE pop_to_front(add_to_front(q, tracklist[Len(tracklist)]),
                      SubSeq(tracklist, 1, Len(tracklist) - 1))

RECURSIVE pop_to_front_albums(_, _)
\* for a in albums { let mut tracklist = a.tracks.clone(); while let ... }
pop_to_front_albums(q, albums) ==
    IF albums = <<>> THEN q
    ELSE pop_to_front_albums(pop_to_front(q, Head(albums).tracks), Tail(albums))

\* UI::add_to_queue: the queue after it, and whether indexing
\* search_results[search_select] panicked
UI_add_to_queue(index, lc, results, select, q) ==
    IF index = 1
    THEN [panic |-> FALSE,
          queue |-> IF lc.current_active = 2 THEN add(q, selected_item(lc.tracks))
                    ELSE IF lc.current_active = 1
                    THEN add_all(q, selected_item(lc.albums).tracks)
                    ELSE add_all_albums(q, selected_item(lc.artists).albums)]
    ELSE IF index = 2
    THEN IF select >= Len(results) THEN [panic |-> TRUE, queue |-> q]
         ELSE [panic |-> FALSE,
               queue |-> IF At(results, select).kind = "Artist"
                         THEN add_all_albums(q, At(results, select).item.albums)
                         ELSE IF At(results, select).kind = "Album"
                         THEN add_all(q, At(results, select).item.tracks)
                         ELSE add(q, At(results, select).item)]
    ELSE [panic |-> FALSE, queue |-> q]

\* UI::add_to_front: the queue after it
UI_add_to_front(index, lc, q) ==
    IF index = 1
    THEN IF lc.current_active = 2 THEN add_to_front(q, selected_item(lc.tracks))
         ELSE IF lc.current_active = 1
         THEN pop_to_front(q, selected_item(lc.albums).tracks)
         ELSE pop_to_front_albums(q, selected_item(lc.artists).albums)
    ELSE q

----------------------------------------------------------------------------
\* Search input and playback of the controller (application/state.rs).

sSpace  == <<32>>
sTitle  == <<116, 105, 116, 108, 101>>
sAlbum  == <<97, 108, 98, 117, 109>>
sArtist == <<97, 114, 116, 105, 115, 116>>
sSong   == <<115, 111, 110, 103>>

\* the position of the first space of a string, 0 when it has none
first_space(s) ==
    LET spaces == {n \in 1..Len(s) : s[n] = 32}
    IN  IF spaces = {} THEN 0 ELSE CHOOSE n \in spaces : \A m \in spaces : n <= m

\* SearchQuery::new (storage/terms.rs is outside the sources): the string up
\* to the first space is the scope, the rest is the text; a string without a
\* recognised scope gives None
SearchQuery_new(input) ==
    LET sp    == first_space(input)
        scope == IF sp = 0 THEN input ELSE SubSeq(input, 1, sp - 1)
        text  == IF sp = 0 THEN sempty ELSE SubSeq(input, sp + 1, Len(input))
    IN  IF scope = sTitle THEN Some(Term("Title", text))
        ELSE IF scope = sAlbum THEN Some(Term("Album", text))
        ELSE IF scope = sArtist THEN Some(Term("Artist", text))
        ELSE None

\* whether a key of a SearchResult indexes into the artists column
indexable(key, items) ==
    /\ key[1] < Len(items)
    /\ Len(key) >= 2 => key[2] < Len(At(items, key[1]).albums)
    /\ Len(key) >= 3 => key[3] < Len(At(At(items, key[1]).albums, key[2]).tracks)

\* the closures of UI::search: the record a key indexes
media_of(key, items) ==
    IF Len(key) = 1 THEN Media("Artist", At(items, key[1]))
    ELSE IF Len(key) = 2 THEN Media("Album", At(At(items, key[1]).albums, key[2]))
    ELSE Media("Track", At(At(At(items, key[1]).albums, key[2]).tracks, key[3]))

\* The fields of the UI that on_enter, play_from_queue, clear_queue and
\* search write: [queue, now_playing, tx, ptx, search_input, search_results,
\* panic, sent, connected]; panic is set by an index out of bounds, sent is
\* the track last passed to tx.send since the last clear_queue, connected
\* says whether the engine still holds the receivers.

\* Sender::send: Err, which every caller ignores, once the receiver is dropped
send(ui, chan, msg) == IF ui.connected THEN Append(chan, msg) ELSE chan

\* a variant of UI::search that empties the results of a query that does not parse
UI_search_clears_results(lc, searcher, near, ui) ==
    IF ui.search_input = sempty THEN [ui EXCEPT !.search_results = <<>>]
    ELSE IF SearchQuery_new(ui.search_input) = None
    THEN [ui EXCEPT !.search_input = sempty, !.search_results = <<>>]
    ELSE LET r == search(searcher, SearchQuery_new(ui.search_input)[1], near)
         IN  IF \E n \in 1..Len(r.keys) : ~indexable(r.keys[n], lc.artists.items)
             THEN [ui EXCEPT !.search_input = sempty, !.panic = TRUE]
             ELSE [ui EXCEPT !.search_input = sempty,
                             !.search_results =
                                 [n \in 1..Len(r.keys) |-> media_of(r.keys[n], lc.artists.items)]]

\* UI::search
UI_search(lc, searcher, near, ui) ==
    IF ui.search_input = sempty THEN ui
    ELSE IF SearchQuery_new(ui.search_input) = None
    THEN [ui EXCEPT !.search_input = sempty]
    ELSE LET r == search(searcher, SearchQuery_new(ui.search_input)[1], near)
         IN  IF \E n \in 1..Len(r.keys) : ~indexable(r.keys[n], lc.artists.items)
             THEN [ui EXCEPT !.search_input = sempty, !.panic = TRUE]
             ELSE [ui EXCEPT !.search_input = sempty,
                             !.search_results =
                                 [n \in 1..Len(r.keys) |-> media_of(r.keys[n], lc.artists.items)]]

\* on_enter on a track: tx.send(track.clone()); self.now_playing = track
send_track(ui, track) ==
    [ui EXCEPT !.tx = send(ui, ui.tx, track), !.sent = Some(track), !.now_playing = track]

\* a variant of send_album that queues the rest of the album in pop order
send_album_reversed(ui, album) ==
    [ui EXCEPT !.tx = send(ui, ui.tx, Head(album.tracks)),
               !.sent = Some(Head(album.tracks)),
               !.now_playing = Head(album.tracks),
               !.queue = iter_to_front(ui.queue, Tail(album.tracks))]

\* on_enter on an album: the clone's first track is removed and sent, the
\* rest is popped onto the head of the queue
send_album(ui, album) ==
    [ui EXCEPT !.tx = send(ui, ui.tx, Head(album.tracks)),
               !.sent = Some(Head(album.tracks)),
               !.now_playing = Head(album.tracks),
               !.queue = pop_to_front(ui.queue, Tail(album.tracks))]

\* UI::on_enter
UI_on_enter(index, lc, searcher, select, near, ui) ==
    IF index = 1
    THEN IF lc.current_active = 2 THEN send_track(ui, selected_item(lc.tracks))
         ELSE IF lc.current_active = 1 THEN send_album(ui, selected_item(lc.albums))
         ELSE ui
    ELSE IF index = 2
    THEN IF ui.search_input = sempty /\ ui.search_results = <<>> THEN ui
         ELSE IF ui.search_input = sempty
         THEN IF select >= Len(ui.search_results) THEN [ui EXCEPT !.panic = TRUE]
              ELSE IF At(ui.search_results, select).kind = "Artist" THEN ui
              ELSE IF At(ui.search_results, select).kind = "Album"
              THEN send_album(ui, At(ui.search_results, select).item)
              ELSE send_track(ui, At(ui.search_results, select).item)
         ELSE UI_search(lc, searcher, near, ui)
    ELSE ui

\* a variant of play_from_queue that leaves now_playing alone
play_from_queue_keeps_slot(ui) ==
    [ui EXCEPT !.queue = take(ui.queue).q,
               !.tx = send(ui, ui.tx, take(ui.queue).ret),
               !.sent = Some(take(ui.queue).ret)]

\* UI::play_from_queue (the caller checks that the queue is not empty)
play_from_queue(ui) ==
    [ui EXCEPT !.queue = take(ui.queue).q,
               !.tx = send(ui, ui.tx, take(ui.queue).ret),
               !.sent = Some(take(ui.queue).ret),
               !.now_playing = take(ui.queue).ret]

\* UI::pause_play
UI_pause_play(ui) == [ui EXCEPT !.ptx = send(ui, ui.ptx, TRUE)]

\* UI::blank_now_play
blank_now_play(track) == IF track.title = sempty THEN track ELSE dummy

\* UI::clear_queue
clear_queue(ui) ==
    [ui EXCEPT !.ptx = send(ui, ui.ptx, FALSE),
               !.sent = None,
               !.queue = clear(ui.queue),
               !.now_playing = blank_now_play(ui.now_playing)]

\* usize::MAX stands as the largest number the model holds; what the model
\* reads of it is that it exceeds every length and that adding 1 wraps to 0
usize_MAX == 2147483647

\* UI::on_up_search: search_results.len() - 1 on an empty list underflows,
\* which panics in a build with overflow checks and wraps in one without
on_up_search(select, results, checked) ==
    IF select > 0 THEN [select |-> select - 1, panic |-> FALSE]
    ELSE IF Len(results) = 0
    THEN IF checked THEN [select |-> select, panic |-> TRUE]
         ELSE [select |-> usize_MAX, panic |-> FALSE]
    ELSE [select |-> Len(results) - 1, panic |-> FALSE]

\* UI::on_down_search: the remainder by search_results.len() panics on an
\* empty list; search_select + 1 overflows at usize::MAX
on_down_search(select, results, checked) ==
    IF select = usize_MAX /\ checked THEN [select |-> select, panic |-> TRUE]
    ELSE IF Len(results) = 0 THEN [select |-> select, panic |-> TRUE]
    ELSE [select |-> (IF select = usize_MAX THEN 0 ELSE select + 1) % Len(results),
          panic |-> FALSE]

----------------------------------------------------------------------------
\* The audio engine (Audio, application/state.rs).  The sink is what the
\* engine reads of rodio::Sink: the source appended to it, None once it has
\* played to its end, and the pause flag.

Sink_new == [source |-> None, paused |-> FALSE]

\* Audio::play: a new sink, then File::open(..).unwrap() and
\* Decoder::new(..).unwrap(); ok says whether the file opens and decodes
Audio_play(s, track, ok) ==
    IF ok THEN [sink |-> [Sink_new EXCEPT !.source = Some(track)], panic |-> FALSE]
    ELSE [sink |-> Sink_new, panic |-> TRUE]

\* Audio::notify
notify(chan) == Append(chan, TRUE)

\* a variant of Audio::pause_play that only ever pauses
pause_only(s) == [s EXCEPT !.paused = TRUE]

\* Audio::pause_play
Audio_pause_play(s) ==
    IF s.paused THEN [s EXCEPT !.paused = FALSE] ELSE [s EXCEPT !.paused = TRUE]

\* a variant of Audio::stop that pauses the sink it has
stop_pauses(s) == [s EXCEPT !.paused = TRUE]

\* Audio::stop
Audio_stop(s) == Sink_new

\* the state of the engine: Idle, Playing or Paused
engine_state(s) ==
    IF s.source = None THEN "Idle" ELSE IF s.paused THEN "Paused" ELSE "Playing"

----------------------------------------------------------------------------
\* Each specification runs one component; the variables of the others keep
\* the values they have before anything ran.

QueueIdle ==
    /\ queue = SonikQueue_new
    /\ last = [op |-> "new", pre |-> SonikQueue_new, fifo |-> TRUE, arg |-> None, ret |-> None]
    /\ added = <<>>
    /\ taken = <<>>
    /\ fifo = TRUE
    /\ nops = 0

BuildIdle ==
    /\ visited = <<>>
    /\ artists = <<>>
    /\ bpc = "idle"
    /\ library = <<>>
    /\ snapshot = [exists |-> FALSE, bytes |-> <<>>]
    /\ loaded = [st |-> "none", lib |-> <<>>]

UIIdle ==
    /\ tabs_index = 0
    /\ lib_cols = LibraryCols_new(Database)
    /\ fuzzy_searcher = create_fuzzy_searcher(Database)
    /\ search_results = <<>>
    /\ search_select = 0
    /\ ui_pc = "idle"
    /\ ui_last = [op |-> "new", tab |-> 0, col |-> 0, pre |-> SonikQueue_new, sel |-> <<>>]

SearchIdle ==
    /\ query = Term("none", <<>>)
    /\ extras = {}
    /\ result = [kind |-> "none", keys |-> <<>>]

PlayIdle ==
    /\ now_playing = dummy
    /\ search_input = sempty
    /\ sent = None
    /\ play_last = [op |-> "new", pre |-> SonikQueue_new, results |-> <<>>, input |-> sempty]
    /\ tx = <<>>
    /\ ptx = <<>>
    /\ rx = <<>>
    /\ sink = Sink_new
    /\ audio_pc = "idle"
    /\ audio_last = [op |-> "new", arg |-> None, pre |-> Sink_new, twice |-> None]

QueueOnly == UNCHANGED <<buildVars, uiVars, searchVars, playVars, overflow_checks>>

BuildOnly == UNCHANGED <<queueVars, uiVars, searchVars, playVars, overflow_checks>>

SearchOnly == UNCHANGED <<queueVars, buildVars, uiVars, playVars, overflow_checks>>

UIOnly == UNCHANGED <<queueHist, buildVars, searchVars, playVars, overflow_checks>>

PlayOnly == UNCHANGED <<queueHist, buildVars, searchVars, overflow_checks>>

----------------------------------------------------------------------------
\* The queue on its own: any sequence of its operations from a new queue.

QueueTracks == {tA1, tA2, tA3}

InitQueue ==
    /\ overflow_checks = TRUE
    /\ QueueIdle
    /\ BuildIdle
    /\ UIIdle
    /\ SearchIdle
    /\ PlayIdle

Add ==
    /\ nops < MaxOps
    /\ Len(queue.tracks) < MaxQueue
    /\ \E t \in QueueTracks :
        /\ queue' = add(queue, t)
        /\ last' = [op |-> "add", pre |-> queue, fifo |-> fifo, arg |-> Some(t), ret |-> None]
        /\ added' = IF fifo THEN Append(added, t) ELSE added
    /\ nops' = nops + 1
    /\ QueueOnly
    /\ UNCHANGED <<taken, fifo>>

AddToFront ==
    /\ nops < MaxOps
    /\ Len(queue.tracks) < MaxQueue
    /\ \E t \in QueueTracks :
        /\ queue' = add_to_front(queue, t)
        /\ last' = [op |-> "add_to_front", pre |-> queue, fifo |-> fifo, arg |-> Some(t), ret |-> None]
    /\ fifo' = FALSE
    /\ added' = <<>>
    /\ taken' = <<>>
    /\ nops' = nops + 1
    /\ QueueOnly

\* take is defined for a non-empty queue only
Take ==
    /\ nops < MaxOps
    /\ queue.tracks # <<>>
    /\ queue' = take(queue).q
    /\ last' = [op |-> "take", pre |-> queue, fifo |-> fifo, arg |-> None, ret |-> Some(take(queue).ret)]
    /\ taken' = IF fifo THEN Append(taken, take(queue).ret) ELSE taken
    /\ nops' = nops + 1
    /\ QueueOnly
    /\ UNCHANGED <<added, fifo>>

Clear ==
    /\ nops < MaxOps
    /\ queue' = clear(queue)
    /\ last' = [op |-> "clear", pre |-> queue, fifo |-> fifo, arg |-> None, ret |-> None]
    /\ fifo' = TRUE
    /\ added' = <<>>
    /\ taken' = <<>>
    /\ nops' = nops + 1
    /\ QueueOnly

Shuffle ==
    /\ nops < MaxOps
    /\ \E q \in shuffle(queue) :
        /\ queue' = q
        /\ last' = [op |-> "shuffle", pre |-> queue, fifo |-> fifo, arg |-> None, ret |-> None]
    /\ fifo' = FALSE
    /\ added' = <<>>
    /\ taken' = <<>>
    /\ nops' = nops + 1
    /\ QueueOnly

NextQueue == Add \/ AddToFront \/ Take \/ Clear \/ Shuffle

SpecQueue == InitQueue /\ [][NextQueue]_vars

----------------------------------------------------------------------------
\* create_and_load_database on a music folder holding any MaxFiles entries of
\* Tree, walked in any order, and load_database on the file it wrote.

InitBuild ==
    /\ overflow_checks = TRUE
    /\ QueueIdle
    /\ UIIdle
    /\ SearchIdle
    /\ PlayIdle
    /\ visited = <<>>
    /\ artists = <<>>
    /\ bpc = "walk"
    /\ library = <<>>
    /\ snapshot = [exists |-> FALSE, bytes |-> <<>>]
    /\ loaded = [st |-> "none", lib |-> <<>>]

\* one iteration of the for loop
Visit ==
    /\ bpc = "walk"
    /\ Len(visited) < MaxFiles
    /\ \E e \in Tree :
        /\ \A i \in 1..Len(visited) : visited[i] # e
        /\ visited' = Append(visited, e)
        /\ artists' = visit(e, artists).artists
        /\ bpc' = IF visit(e, artists).panic THEN "stat_panic" ELSE "walk"
    /\ UNCHANGED <<library, snapshot, loaded>>
    /\ BuildOnly

\* the walk is over: create the file, sort, serialize, return
FinishWalk ==
    /\ bpc = "walk"
    /\ \E disk \in {"ok", "create_fails", "write_fails"} :
        \/ /\ disk = "ok"
           /\ snapshot' = [exists |-> TRUE, bytes |-> finish(artists).snapshot]
           /\ library' = finish(artists).ret
           /\ bpc' = "done"
        \/ /\ disk = "create_fails"
           /\ bpc' = "write_panic"
           /\ UNCHANGED <<snapshot, library>>
        \/ /\ disk = "write_fails"
           /\ snapshot' = [exists |-> TRUE, bytes |-> <<>>]
           /\ bpc' = "write_panic"
           /\ UNCHANGED library
    /\ UNCHANGED <<visited, artists, loaded>>
    /\ BuildOnly

\* load_database on the file the builder left
Load ==
    /\ snapshot.exists
    /\ loaded.st = "none"
    /\ loaded' = load_database(snapshot.bytes)
    /\ UNCHANGED <<visited, artists, bpc, library, snapshot>>
    /\ BuildOnly

NextBuild == Visit \/ FinishWalk \/ Load

SpecBuild == InitBuild /\ [][NextBuild]_vars

----------------------------------------------------------------------------
\* search on the EngineGroup built from a library, for every scope.

SearchLibraries == {Database, Database6}

QueryStrings == {sone, sX, sgamma, sGamma, sempty}

AllKeys(engine) ==
    {engine.artists.index[n].key : n \in 1..Len(engine.artists.index)}
        \cup {engine.albums.index[n].key : n \in 1..Len(engine.albums.index)}
        \cup {engine.tracks.index[n].key : n \in 1..Len(engine.tracks.index)}

\* search is a function of the engine group and the query: the library, the
\* query and the outcome of the similarity measure are drawn here
InitSearch ==
    /\ overflow_checks = TRUE
    /\ QueueIdle
    /\ BuildIdle
    /\ PlayIdle
    /\ \E lib \in SearchLibraries :
        /\ lib_cols = LibraryCols_new(lib)
        /\ fuzzy_searcher = create_fuzzy_searcher(lib)
        /\ extras \in {fuzzy \in SUBSET AllKeys(create_fuzzy_searcher(lib)) :
                           Cardinality(fuzzy) <= MaxFuzzy}
    /\ query \in {Term(tag, s) : tag \in {"Title", "Album", "Artist"}, s \in QueryStrings}
    /\ result = [kind |-> "none", keys |-> <<>>]
    /\ tabs_index = 0
    /\ search_results = <<>>
    /\ search_select = 0
    /\ ui_pc = "idle"
    /\ ui_last = [op |-> "new", tab |-> 0, col |-> 0, pre |-> SonikQueue_new, sel |-> <<>>]

Search ==
    /\ result.kind = "none"
    /\ result' = search(fuzzy_searcher, query, extras)
    /\ UNCHANGED <<query, extras>>
    /\ SearchOnly

NextSearch == Search

SpecSearch == InitSearch /\ [][NextSearch]_vars

----------------------------------------------------------------------------
\* The controller on Database or Database3: tabs, library navigation and the
\* two ways of queueing the selection.

\* the libraries the controller is run on
UILibraries == {Database, Database3}

InitUI ==
    /\ overflow_checks = TRUE
    /\ QueueIdle
    /\ BuildIdle
    /\ SearchIdle
    /\ PlayIdle
    /\ tabs_index = 0
    /\ \E lib \in UILibraries :
        /\ lib_cols = LibraryCols_new(lib)
        /\ fuzzy_searcher = create_fuzzy_searcher(lib)
    /\ search_results = <<>>
    /\ search_select = 0
    /\ ui_pc = "run"
    /\ ui_last = [op |-> "new", tab |-> 0, col |-> 0, pre |-> SonikQueue_new, sel |-> <<>>]

\* what ui_last records of an operation that leaves the queue alone
Moved(op) ==
    [op |-> op, tab |-> tabs_index, col |-> lib_cols.current_active,
     pre |-> SonikQueue_new, sel |-> <<>>]

\* what ui_last records of an operation on the queue: the queue before it
\* and the tracks of the selected album
Queued(op) ==
    [op |-> op, tab |-> tabs_index, col |-> lib_cols.current_active,
     pre |-> queue, sel |-> selected_item(lib_cols.albums).tracks]

TabNext ==
    /\ ui_pc = "run"
    /\ tabs_index' = tabs_next(tabs_index)
    /\ ui_last' = Moved("next")
    /\ UNCHANGED <<queue, lib_cols, fuzzy_searcher, search_results, search_select, ui_pc>>
    /\ UIOnly

TabPrevious ==
    /\ ui_pc = "run"
    /\ tabs_index' = tabs_previous(tabs_index)
    /\ ui_last' = Moved("previous")
    /\ UNCHANGED <<queue, lib_cols, fuzzy_searcher, search_results, search_select, ui_pc>>
    /\ UIOnly

SwitchLeft ==
    /\ ui_pc = "run"
    /\ lib_cols' = switch_left(lib_cols)
    /\ ui_last' = Moved("switch_left")
    /\ UNCHANGED <<queue, tabs_index, fuzzy_searcher, search_results, search_select, ui_pc>>
    /\ UIOnly

SwitchRight ==
    /\ ui_pc = "run"
    /\ lib_cols' = switch_right(lib_cols)
    /\ ui_last' = Moved("switch_right")
    /\ UNCHANGED <<queue, tabs_index, fuzzy_searcher, search_results, search_select, ui_pc>>
    /\ UIOnly

OnUp ==
    /\ ui_pc = "run"
    /\ lib_cols' = on_up(lib_cols)
    /\ ui_last' = Moved("on_up")
    /\ UNCHANGED <<queue, tabs_index, fuzzy_searcher, search_results, search_select, ui_pc>>
    /\ UIOnly

OnDown ==
    /\ ui_pc = "run"
    /\ lib_cols' = on_down(lib_cols)
    /\ ui_last' = Moved("on_down")
    /\ UNCHANGED <<queue, tabs_index, fuzzy_searcher, search_results, search_select, ui_pc>>
    /\ UIOnly

AddToQueue ==
    /\ ui_pc = "run"
    /\ LET r == UI_add_to_queue(tabs_index, lib_cols, search_results, search_select, queue)
       IN  /\ Len(r.queue.tracks) <= MaxUIQueue
           /\ queue' = r.queue
           /\ ui_pc' = IF r.panic THEN "panic" ELSE "run"
    /\ ui_last' = Queued("add_to_queue")
    /\ UNCHANGED <<tabs_index, lib_cols, fuzzy_searcher, search_results, search_select>>
    /\ UIOnly

AddToFrontUI ==
    /\ ui_pc = "run"
    /\ Len(UI_add_to_front(tabs_index, lib_cols, queue).tracks) <= MaxUIQueue
    /\ queue' = UI_add_to_front(tabs_index, lib_cols, queue)
    /\ ui_last' = Queued("add_to_front")
    /\ UNCHANGED <<tabs_index, lib_cols, fuzzy_searcher, search_results, search_select, ui_pc>>
    /\ UIOnly

NextUI ==
    \/ TabNext \/ TabPrevious \/ SwitchLeft \/ SwitchRight \/ OnUp \/ OnDown
    \/ AddToQueue \/ AddToFrontUI

SpecUI == InitUI /\ [][NextUI]_vars

----------------------------------------------------------------------------
\* Playback: the controller's search and playback operations on Database,
\* the three channels and the engine thread.  A run that starts in the
\* library tab has the engine running; a run that starts in the search tab
\* is the controller's alone, and what it sends stays in the channels.  The
\* loops that call these
\* operations (the key handling of the controller, the receive loop of the
\* engine) are outside the sources: a control message true is PauseToggle,
\* false is Stop, the engine notifies when its sink has played a track to
\* the end, and the controller answers a notification with play_from_queue
\* when the queue is not empty.

\* the positions of the tabs and columns the playback runs start from, each
\* reached from UI::new (on Database, once on Database3) by next,
\* switch_right and on_down
NavStates ==
    LET new == LibraryCols_new(Database)
    IN  {[tab |-> 1, cols |-> new],
         [tab |-> 1, cols |-> switch_right(new)],
         [tab |-> 1, cols |-> switch_right(switch_right(new))],
         [tab |-> 1, cols |-> on_down(switch_right(switch_right(new)))],
         [tab |-> 1, cols |-> switch_right(LibraryCols_new(Database3))],
         [tab |-> 2, cols |-> new]}

\* what the user types into the search tab
QueryInputs ==
    {sone, sTitle \o sSpace \o sone, sAlbum \o sSpace \o sX,
     sArtist \o sSpace \o sbeta, sSong \o sSpace \o sone}

\* what the similarity measure lets through besides the exact matches in a
\* playback run: nothing, the album Y of Alpha, or the track of beta
NearSets == {{}, {<<0, 1>>}, {<<1, 0, 0>>}}

InitPlay ==
    /\ overflow_checks = TRUE
    /\ QueueIdle
    /\ BuildIdle
    /\ query = Term("none", <<>>)
    /\ result = [kind |-> "none", keys |-> <<>>]
    /\ \E nav \in NavStates :
        /\ tabs_index = nav.tab
        /\ lib_cols = nav.cols
        /\ extras \in IF nav.tab = 2 THEN NearSets ELSE {{}}
        /\ audio_pc = IF nav.tab = 2 THEN "idle" ELSE "run"
        /\ fuzzy_searcher = create_fuzzy_searcher(nav.cols.artists.items)
    /\ search_results = <<>>
    /\ search_select = 0
    /\ ui_pc = "run"
    /\ ui_last = [op |-> "new", tab |-> 0, col |-> 0, pre |-> SonikQueue_new, sel |-> <<>>]
    /\ now_playing = dummy
    /\ search_input = sempty
    /\ sent = None
    /\ play_last = [op |-> "new", pre |-> SonikQueue_new, results |-> <<>>, input |-> sempty]
    /\ tx = <<>>
    /\ ptx = <<>>
    /\ rx = <<>>
    /\ sink = Sink_new
    /\ audio_last = [op |-> "new", arg |-> None, pre |-> Sink_new, twice |-> None]

\* the fields of the UI the playback operations write
ui_fields ==
    [queue |-> queue, now_playing |-> now_playing, tx |-> tx, ptx |-> ptx,
     search_input |-> search_input, search_results |-> search_results, panic |-> FALSE,
     sent |-> sent, connected |-> audio_pc # "panic"]

\* what play_last records of an operation: the queue, the search results
\* and the search input before it, as far as the operation reads them
Played(op) ==
    [op |-> op,
     pre |-> IF op \in {"on_enter", "play_from_queue"} THEN queue ELSE SonikQueue_new,
     results |-> IF op \in {"on_enter", "search"} THEN search_results ELSE <<>>,
     input |-> IF op \in {"on_enter", "search"} THEN search_input ELSE sempty]

\* the controller's state after an operation that left ui
Becomes(ui) ==
    /\ Len(ui.queue.tracks) <= MaxPlayQueue
    /\ Len(ui.tx) <= MaxChan
    /\ Len(ui.ptx) <= MaxChan
    /\ queue' = ui.queue
    /\ now_playing' = ui.now_playing
    /\ tx' = ui.tx
    /\ ptx' = ui.ptx
    /\ search_input' = ui.search_input
    /\ search_results' = ui.search_results
    /\ sent' = ui.sent
    /\ ui_pc' = IF ui.panic THEN "panic" ELSE "run"
    /\ UNCHANGED <<tabs_index, lib_cols, fuzzy_searcher, search_select, ui_last>>
    /\ UNCHANGED <<rx, audioVars>>
    /\ PlayOnly

\* a key press in the search tab: the input line is typed in one step
TypeQuery ==
    /\ ui_pc = "run"
    /\ tabs_index = 2
    /\ search_input = sempty
    /\ \E input \in QueryInputs : Becomes([ui_fields EXCEPT !.search_input = input])
    /\ play_last' = Played("type")

SearchUI ==
    /\ ui_pc = "run"
    /\ Becomes(UI_search(lib_cols, fuzzy_searcher, extras, ui_fields))
    /\ play_last' = Played("search")

OnEnter ==
    /\ ui_pc = "run"
    /\ Becomes(UI_on_enter(tabs_index, lib_cols, fuzzy_searcher, search_select, extras,
                           ui_fields))
    /\ play_last' = Played("on_enter")

\* the controller receives a notification of the engine
Notified ==
    /\ ui_pc = "run"
    /\ rx # <<>>
    /\ rx' = Tail(rx)
    /\ IF queue.tracks # <<>>
       THEN /\ Len(tx) < MaxChan
            /\ queue' = play_from_queue(ui_fields).queue
            /\ now_playing' = play_from_queue(ui_fields).now_playing
            /\ tx' = play_from_queue(ui_fields).tx
            /\ sent' = play_from_queue(ui_fields).sent
            /\ play_last' = Played("play_from_queue")
       ELSE /\ play_last' = Played("notified")
            /\ UNCHANGED <<queue, now_playing, tx, sent>>
    /\ UNCHANGED <<ptx, search_input, uiVars, audioVars>>
    /\ PlayOnly

PausePlay ==
    /\ ui_pc = "run"
    /\ Becomes(UI_pause_play(ui_fields))
    /\ play_last' = Played("pause_play")

ClearQueue ==
    /\ ui_pc = "run"
    /\ Becomes(clear_queue(ui_fields))
    /\ play_last' = Played("clear_queue")

\* UI::add_to_queue in a playback run
Enqueue ==
    /\ ui_pc = "run"
    /\ Becomes([ui_fields EXCEPT
           !.queue = UI_add_to_queue(tabs_index, lib_cols, search_results, search_select,
                                     queue).queue,
           !.panic = UI_add_to_queue(tabs_index, lib_cols, search_results, search_select,
                                     queue).panic])
    /\ play_last' = Played("add_to_queue")

\* the search selection moves to the result that on_up_search or
\* on_down_search gave
Selects(r) ==
    /\ search_select' = r.select
    /\ ui_pc' = IF r.panic THEN "panic" ELSE "run"
    /\ UNCHANGED <<queue, tabs_index, lib_cols, fuzzy_searcher, search_results, ui_last>>
    /\ UNCHANGED <<now_playing, search_input, sent, chanVars, audioVars>>
    /\ PlayOnly

\* the up key in the search tab
OnUpSearch ==
    /\ ui_pc = "run"
    /\ tabs_index = 2
    /\ search_select <= Len(search_results) \/ search_select > usize_MAX - MaxBelow
    /\ Selects(on_up_search(search_select, search_results, overflow_checks))
    /\ play_last' = Played("on_up_search")

\* the down key in the search tab
OnDownSearch ==
    /\ ui_pc = "run"
    /\ tabs_index = 2
    /\ Selects(on_down_search(search_select, search_results, overflow_checks))
    /\ play_last' = Played("on_down_search")

\* what audio_last records of a step of the engine
\* the message or finished track, the sink before the step and, when the
\* step is a PauseToggle right after a PauseToggle, the sink before both
Stepped(op, arg) ==
    [op |-> op, arg |-> arg, pre |-> sink,
     twice |-> IF op = "pause_play" /\ audio_last.op = "pause_play"
               THEN Some(audio_last.pre) ELSE None]

\* the engine receives a track: Audio::play.  A panic ends the thread and
\* drops its receivers with what they hold.
AudioPlay ==
    /\ audio_pc = "run"
    /\ tx # <<>>
    /\ \E ok \in BOOLEAN :
        /\ sink' = Audio_play(sink, Head(tx), ok).sink
        /\ audio_pc' = IF Audio_play(sink, Head(tx), ok).panic THEN "panic" ELSE "run"
        /\ tx' = IF Audio_play(sink, Head(tx), ok).panic THEN <<>> ELSE Tail(tx)
        /\ ptx' = IF Audio_play(sink, Head(tx), ok).panic THEN <<>> ELSE ptx
    /\ audio_last' = Stepped("play", Some(Head(tx)))
    /\ UNCHANGED <<queue, uiVars, ctlVars, rx>>
    /\ PlayOnly

\* the engine receives a control message: Audio::pause_play or Audio::stop
AudioControl ==
    /\ audio_pc = "run"
    /\ ptx # <<>>
    /\ ptx' = Tail(ptx)
    /\ sink' = IF Head(ptx) THEN Audio_pause_play(sink) ELSE Audio_stop(sink)
    /\ audio_last' = Stepped(IF Head(ptx) THEN "pause_play" ELSE "stop", None)
    /\ UNCHANGED <<queue, uiVars, ctlVars, tx, rx, audio_pc>>
    /\ PlayOnly

\* the sink plays its source to the end: Audio::notify
AudioFinish ==
    /\ audio_pc = "run"
    /\ engine_state(sink) = "Playing"
    /\ Len(rx) < MaxChan
    /\ sink' = [sink EXCEPT !.source = None]
    /\ rx' = notify(rx)
    /\ audio_last' = Stepped("finish", sink.source)
    /\ UNCHANGED <<queue, uiVars, ctlVars, tx, ptx, audio_pc>>
    /\ PlayOnly

NextPlay ==
    \/ TypeQuery \/ SearchUI \/ OnEnter \/ Notified \/ PausePlay \/ ClearQueue \/ Enqueue
    \/ AudioPlay \/ AudioControl \/ AudioFinish

SpecPlay == InitPlay /\ [][NextPlay]_vars

\* Both threads loop for as long as they live, so a message in a channel is
\* received in the end, and a source that plays runs out.  What the user
\* does is not forced.
SpecPlayFair ==
    /\ SpecPlay
    /\ WF_vars(Notified)
    /\ WF_vars(AudioPlay)
    /\ WF_vars(AudioControl)
    /\ WF_vars(AudioFinish)

----------------------------------------------------------------------------
\* The search tab: the controller alone on Database, typing and running
\* queries, moving the selection over the results, and playing or queueing
\* the selected result.  The similarity measure adds nothing to the exact
\* matches here.

InitSelect ==
    /\ overflow_checks \in BOOLEAN
    /\ QueueIdle
    /\ BuildIdle
    /\ SearchIdle
    /\ tabs_index = 2
    /\ lib_cols = LibraryCols_new(Database)
    /\ fuzzy_searcher = create_fuzzy_searcher(Database)
    /\ search_results = <<>>
    /\ search_select = 0
    /\ ui_pc = "run"
    /\ ui_last = [op |-> "new", tab |-> 0, col |-> 0, pre |-> SonikQueue_new, sel |-> <<>>]
    /\ now_playing = dummy
    /\ search_input = sempty
    /\ sent = None
    /\ play_last = [op |-> "new", pre |-> SonikQueue_new, results |-> <<>>, input |-> sempty]
    /\ tx = <<>>
    /\ ptx = <<>>
    /\ rx = <<>>
    /\ sink = Sink_new
    /\ audio_pc = "idle"
    /\ audio_last = [op |-> "new", arg |-> None, pre |-> Sink_new, twice |-> None]

NextSelect ==
    \/ TypeQuery \/ SearchUI \/ OnUpSearch \/ OnDownSearch \/ OnEnter \/ Enqueue

SpecSelect == InitSelect /\ [][NextSelect]_vars

----------------------------------------------------------------------------
\* Helpers of the properties.

RECURSIVE SumDurations(_)
SumDurations(s) == IF s = <<>> THEN 0 ELSE Head(s).duration + SumDurations(Tail(s))

\* number of occurrences of x in s
Count(s, x) == Cardinality({i \in 1..Len(s) : s[i] = x})

SameMultiset(s, r) ==
    /\ Len(s) = Len(r)
    /\ \A i \in 1..Len(s) : Count(s, s[i]) = Count(r, s[i])


has_suffix(p, suf) ==
    Len(p) >= Len(suf) /\ SubSeq(p, Len(p) - Len(suf) + 1, Len(p)) = suf

\* a regular file named *.mp3, *.flac or *.ogg whose tags parsed
Eligible(e) ==
    /\ e.walk_ok
    /\ e.stat = "file"
    /\ e.tags # None
    /\ \E x \in {sMp3, sFlac, sOgg} : has_suffix(e.path, <<46>> \o x)

RECURSIVE EligibleTracks(_)
\* the tracks of the eligible entries, in the order of the walk
EligibleTracks(vis) ==
    IF vis = <<>> THEN <<>>
    ELSE IF Eligible(Head(vis)) THEN <<Head(vis).tags[1]>> \o EligibleTracks(Tail(vis))
    ELSE EligibleTracks(Tail(vis))

AlbumTracks(albums) == concat([j \in 1..Len(albums) |-> albums[j].tracks])

\* every track of a library, in library order
AllTracks(arts) == concat([i \in 1..Len(arts) |-> AlbumTracks(arts[i].albums)])

IndexOf(s, x) == CHOOSE i \in 1..Len(s) : s[i] = x

Titles(s) == [i \in 1..Len(s) |-> s[i].title]

\* no two artists and no two albums of an artist share a title, and every
\* track sits under the artist and album its own fields name
Grouped(arts) ==
    /\ \A i, j \in 1..Len(arts) : arts[i].title = arts[j].title => i = j
    /\ \A i \in 1..Len(arts) :
        /\ \A j, k \in 1..Len(arts[i].albums) :
              arts[i].albums[j].title = arts[i].albums[k].title => j = k
        /\ \A j \in 1..Len(arts[i].albums) :
              \A k \in 1..Len(arts[i].albums[j].tracks) :
                  /\ arts[i].albums[j].tracks[k].album = arts[i].albums[j].title
                  /\ arts[i].albums[j].tracks[k].album_artist = arts[i].title

\* the (artist index, album index, track) triples of a library
Places(arts) ==
    UNION {UNION {{<<i, j, arts[i].albums[j].tracks[k]>> :
                      k \in 1..Len(arts[i].albums[j].tracks)} :
                  j \in 1..Len(arts[i].albums)} :
           i \in 1..Len(arts)}

\* two tracks share an album exactly when their (album_artist, album) agree
SharedAlbums(arts) ==
    \A x, y \in Places(arts) :
        (x[3].album_artist = y[3].album_artist /\ x[3].album = y[3].album)
            <=> (x[1] = y[1] /\ x[2] = y[2])

\* ascending in the lower-cased titles
Ascending(arts) ==
    \A i \in 1..(Len(arts) - 1) :
        str_le(to_lowercase(arts[i].title), to_lowercase(arts[i + 1].title))

\* the albums of every artist in the order the walk first met them, the
\* tracks of every album in the order of the walk
IngestionOrder(arts, vis) ==
    \A i \in 1..Len(arts) :
        LET albums == arts[i].albums
            OfAlbum(j) == LET InAlbum(t) == /\ t.album_artist = arts[i].title
                                            /\ t.album = albums[j].title
                          IN  SelectSeq(EligibleTracks(vis), InAlbum)
        IN  /\ \A j \in 1..Len(albums) : albums[j].tracks = OfAlbum(j)
            /\ \A j \in 1..(Len(albums) - 1) :
                  IndexOf(EligibleTracks(vis), albums[j].tracks[1])
                      < IndexOf(EligibleTracks(vis), albums[j + 1].tracks[1])

\* the library holds exactly the eligible tracks the walk met, once each
WalkKeepsEligible ==
    /\ SameMultiset(AllTracks(artists), EligibleTracks(visited))
    /\ bpc = "done" => SameMultiset(AllTracks(library), EligibleTracks(visited))

----------------------------------------------------------------------------
\* C1: after any sequence of add, add_to_front, take (non-empty), clear and
\* shuffle from a new queue, total_time is the sum of the durations of the
\* tracks in the queue.
C1_TotalTimeIsSum == queue.total_time = SumDurations(queue.tracks)

\* a queue that went through every kind of operation and still holds tracks
C1_Witness ==
    /\ ~fifo
    /\ last.op = "take"
    /\ last.pre.tracks = <<tA2, tA1, tA3>>
    /\ queue.total_time = 300

\* C2: add appends at the tail and take removes and returns the head: for a
\* queue filled by add only, the takes return the tracks in the order of the
\* adds, and each take shortens the queue by one and lowers total_time by the
\* duration of the returned track.
C2_FifoOrder ==
    /\ fifo => taken \o queue.tracks = added
    /\ last.op = "add" =>
        /\ queue.tracks = Append(last.pre.tracks, last.arg[1])
    /\ last.op = "take" =>
        /\ last.ret = Some(Head(last.pre.tracks))
        /\ queue.tracks = Tail(last.pre.tracks)
        /\ Len(queue.tracks) = Len(last.pre.tracks) - 1
        /\ queue.total_time = last.pre.total_time - last.ret[1].duration

\* three different adds, then two takes
C2_Witness ==
    /\ fifo
    /\ last.op = "take"
    /\ added = <<tA1, tA2, tA3>>
    /\ taken = <<tA1, tA2>>

\* C3: clear in any reachable queue state leaves zero tracks and total_time 0.
C3_ClearEmpties ==
    last.op = "clear" => queue.tracks = <<>> /\ queue.total_time = 0

\* clear of a queue that add_to_front and shuffle worked on
C3_Witness ==
    /\ last.op = "clear"
    /\ ~last.fifo
    /\ Len(last.pre.tracks) = 3
    /\ last.pre.tracks[1] # last.pre.tracks[2]

\* C4: shuffle only permutes: the multiset of tracks, the length and
\* total_time are the same after it as before, whatever permutation it picks.
C4_ShufflePermutes ==
    last.op = "shuffle" =>
        /\ SameMultiset(last.pre.tracks, queue.tracks)
        /\ Len(queue.tracks) = Len(last.pre.tracks)
        /\ queue.total_time = last.pre.total_time

\* a shuffle that changed the order of a queue holding a duplicate
C4_Witness ==
    /\ last.op = "shuffle"
    /\ last.pre.tracks = <<tA1, tA2, tA1>>
    /\ queue.tracks = <<tA2, tA1, tA1>>

\* C5: add_to_front with the library tab and the album column active puts the
\* selected album at the head of the queue in album order, followed by the
\* previous queue contents in their order, and total_time grows by the sum of
\* the album's durations (300 for tracks of 100 and 200 on an empty queue).
C5_AlbumToFront ==
    ui_last.op = "add_to_front" /\ ui_last.tab = 1 /\ ui_last.col = 1 =>
        /\ queue.tracks = ui_last.sel \o ui_last.pre.tracks
        /\ queue.total_time = ui_last.pre.total_time + SumDurations(ui_last.sel)
        /\ ui_last.pre.tracks = <<>> /\ ui_last.sel = <<tA1, tA2>>
              => queue.total_time = 300

\* Alpha's album X put in front of a queue that held beta's track
C5_Witness ==
    /\ ui_last.op = "add_to_front"
    /\ ui_last.tab = 1
    /\ ui_last.col = 1
    /\ ui_last.pre.tracks = <<tB1>>
    /\ queue.tracks = <<tA1, tA2, tB1>>
    /\ queue.total_time = 400

\* C6: after ingesting any sequence of tracks, no two Artists have the same
\* title, no two Albums of one Artist have the same title, and every track
\* sits in the Album titled as its album field under the Artist titled as its
\* album_artist field (exact, case-sensitive); so tracks with equal
\* (album_artist, album) share one Album and one album title under two
\* album_artist values gives two Albums.
C6_Grouping ==
    /\ Grouped(artists)
    /\ SharedAlbums(artists)
    /\ SameMultiset(AllTracks(artists), EligibleTracks(visited))
    /\ bpc = "done" => Grouped(library) /\ SharedAlbums(library)

\* two tracks of Alpha's album X in one Album, beta's album X in another
C6_Witness ==
    /\ Titles(artists) = <<sAlpha, sbeta>>
    /\ artists[1].albums[1].tracks = <<tA1, tA2>>
    /\ artists[2].albums[1].tracks = <<tB1>>
    /\ artists[1].albums[1].title = artists[2].albums[1].title

\* C7: for every ingestion order, the Library the Builder returns and the
\* snapshot it persists have the Artists in ascending order of their
\* lower-cased titles, and the sort only reorders Artists: each keeps its
\* albums and tracks in ingestion order.
C7_SortedArtists ==
    bpc = "done" =>
        /\ Ascending(library)
        /\ Ascending(deserialize(snapshot.bytes)[1])
        /\ SameMultiset(library, artists)
        /\ IngestionOrder(library, visited)
        /\ Titles(artists) = <<sbeta, sAlpha, sgamma>>
              => Titles(library) = <<sAlpha, sbeta, sgamma>>

\* "beta", "Alpha", "gamma" ingested in that order
C7_Witness ==
    /\ bpc = "done"
    /\ Titles(artists) = <<sbeta, sAlpha, sgamma>>
    /\ Titles(library) = <<sAlpha, sbeta, sgamma>>

\* C8: the Library load_database reads from the snapshot that
\* create_and_load_database wrote is the Library the Builder returned, same
\* artists, albums and tracks in the same order; the snapshot is written
\* after the sort.
C8_RoundTrip ==
    /\ bpc = "done" => deserialize(snapshot.bytes) = Some(library)
    /\ bpc = "done" /\ loaded.st # "none" => loaded = [st |-> "ok", lib |-> library]

\* a loaded library that the sort reordered and that holds a negative year
C8_Witness ==
    /\ bpc = "done"
    /\ loaded.st = "ok"
    /\ library # artists
    /\ Titles(loaded.lib) = <<sbeta, sgamma, sGamma>>
    /\ loaded.lib[2].albums[1].year = -1

\* C9: the walk keeps going past bad entries: the finished Library holds
\* exactly one Track for every visited regular file with extension mp3, flac
\* or ogg whose metadata parsed and none for anything else, and a failing
\* file never stops the scan nor removes or duplicates a grouped track.
C9_WalkNeverStops ==
    /\ bpc # "stat_panic"
    /\ WalkKeepsEligible

\* an artist index, an (artist, album) or an (artist, album, track) coordinate
\* of the library, counted from 0
ArtistCoord(key, lib) == Len(key) = 1 /\ key[1] \in 0..(Len(lib) - 1)
AlbumCoord(key, lib) ==
    /\ Len(key) = 2
    /\ key[1] \in 0..(Len(lib) - 1)
    /\ key[2] \in 0..(Len(At(lib, key[1]).albums) - 1)
TrackCoord(key, lib) ==
    /\ Len(key) = 3
    /\ key[1] \in 0..(Len(lib) - 1)
    /\ key[2] \in 0..(Len(At(lib, key[1]).albums) - 1)
    /\ key[3] \in 0..(Len(At(At(lib, key[1]).albums, key[2]).tracks) - 1)

NoIndex == <<>>

\* the engine group with every index but one emptied
OnlyIndex(engine, tag) ==
    [artists |-> [engine.artists EXCEPT !.index = IF tag = "Artist" THEN @ ELSE NoIndex],
     albums  |-> [engine.albums EXCEPT !.index = IF tag = "Album" THEN @ ELSE NoIndex],
     tracks  |-> [engine.tracks EXCEPT !.index = IF tag = "Title" THEN @ ELSE NoIndex]]

\* C10: a query consults exactly the index its scope tag names: a title query
\* is answered by the track index with (artist, album, track) coordinates, an
\* album query by the album index with (artist, album) coordinates, an artist
\* query by the artist index with artist indices; the other two indices never
\* contribute.
C10_ScopedSearch ==
    result.kind # "none" =>
        LET lib == lib_cols.artists.items
            Keys == {result.keys[n] : n \in 1..Len(result.keys)}
        IN  /\ query.tag = "Title" =>
                  result.kind = "Tracks" /\ \A key \in Keys : TrackCoord(key, lib)
            /\ query.tag = "Album" =>
                  result.kind = "Albums" /\ \A key \in Keys : AlbumCoord(key, lib)
            /\ query.tag = "Artist" =>
                  result.kind = "Artists" /\ \A key \in Keys : ArtistCoord(key, lib)
            /\ result = search(OnlyIndex(fuzzy_searcher, query.tag), query, extras)
            /\ \A key \in Keys :
                  \/ key \in extras
                  \/ /\ query.tag = "Title" =>
                            to_lowercase(At(At(At(lib, key[1]).albums, key[2]).tracks, key[3]).title)
                                = to_lowercase(query.s)
                     /\ query.tag = "Album" =>
                            to_lowercase(At(At(lib, key[1]).albums, key[2]).title)
                                = to_lowercase(query.s)
                     /\ query.tag = "Artist" =>
                            to_lowercase(At(lib, key[1]).title) = to_lowercase(query.s)

\* "gamma" names an artist, an album and a track: the title query returns the
\* track alone
C10_Witness ==
    /\ query = Term("Title", sgamma)
    /\ extras = {}
    /\ Len(fuzzy_searcher.artists.index) = 4
    /\ result = [kind |-> "Tracks", keys |-> << <<3, 0, 0>> >>]

----------------------------------------------------------------------------
\* Helpers of the playback properties.

\* whether s begins with prefix
starts_with(s, prefix) == Len(s) >= Len(prefix) /\ SubSeq(s, 1, Len(prefix)) = prefix

\* whether an input line carries one of the three scope prefixes
HasScope(input) ==
    \E scope \in {sTitle, sAlbum, sArtist} :
        input = scope \/ starts_with(input, scope \o sSpace)

\* the last controller operation ran UI::search: directly, or from on_enter
\* in the search tab with a typed input
RanSearch ==
    \/ play_last.op = "search"
    \/ play_last.op = "on_enter" /\ tabs_index = 2 /\ play_last.input # sempty

\* C11: a UI search whose input is empty or carries no recognised scope
\* prefix performs no search: search_results is what it was before.
C11_NoSearchKeepsResults ==
    (RanSearch /\ ui_pc = "run" /\ ~HasScope(play_last.input))
        => search_results = play_last.results

\* an input with an unknown scope was searched while results were displayed
C11_Witness ==
    /\ play_last.op = "search"
    /\ play_last.input = sSong \o sSpace \o sone
    /\ play_last.results # <<>>
    /\ search_results = play_last.results

\* C12: Play is accepted in every engine state and always leaves the engine
\* Playing the new track, not paused, with nothing of the prior sink left.
C12_PlayAlwaysPlays ==
    audio_last.op = "play"
        => /\ audio_pc = "run"
           /\ sink = [source |-> audio_last.arg, paused |-> FALSE]
           /\ engine_state(sink) = "Playing"

\* C13: PauseToggle moves Playing to Paused and Paused to Playing on the
\* same track, two consecutive toggles restore the state, and a toggle
\* neither starts a track from Idle nor changes the loaded track.
C13_PauseToggle ==
    audio_last.op = "pause_play"
        => /\ sink.source = audio_last.pre.source
           /\ engine_state(audio_last.pre) = "Playing" => engine_state(sink) = "Paused"
           /\ engine_state(audio_last.pre) = "Paused" => engine_state(sink) = "Playing"
           /\ engine_state(audio_last.pre) = "Idle" => engine_state(sink) = "Idle"
           /\ audio_last.twice # None => sink = audio_last.twice[1]

\* a playing track was paused and resumed by two toggles in a row
C13_Witness ==
    /\ audio_last.op = "pause_play"
    /\ audio_last.twice # None
    /\ engine_state(audio_last.pre) = "Paused"
    /\ engine_state(sink) = "Playing"

\* the engine takes a Stop from the control channel
StopStep == ptx # <<>> /\ ~Head(ptx) /\ ptx' = Tail(ptx)

Interfered == play_last.op \in {"clear_queue", "on_enter", "pause_play", "add_to_queue"}

\* a track has played to its end, its notification is on the way to the
\* controller and no command is on the way to the engine
FinishedNaturally == audio_last.op = "finish" /\ rx # <<>> /\ tx = <<>> /\ ptx = <<>>

\* C15: once a track has finished naturally while the queue is not empty,
\* the controller takes the head and sends it, and so on after each track:
\* unless the user clears, plays, pauses or queues, every queued track is
\* dispatched in the end.
C15_QueueDrains ==
    (FinishedNaturally /\ queue.tracks # <<>>) ~> (queue.tracks = <<>> \/ Interfered)

\* C16: after every controller operation now_playing is the track last sent
\* on the Track channel since the last clear_queue, and it is the sentinel
\* with the empty title when nothing was sent since start-up or since the
\* last clear_queue.
C16_NowPlayingIsLastSent ==
    IF sent = None THEN now_playing.title = sempty ELSE now_playing = sent[1]

\* a track was sent by on_enter after a clear_queue whose Stop is still on
\* its way to the engine
C16_Witness ==
    /\ play_last.op = "on_enter"
    /\ sent # None
    /\ now_playing = sent[1]
    /\ now_playing.title # sempty
    /\ ptx # <<>>
    /\ ~Head(ptx)

----------------------------------------------------------------------------
\* the keys of an index
IndexKeys(index) == {index[n].key : n \in 1..Len(index)}

\* the coordinates of the artists, albums and tracks of a library
ArtistCoords(lib) == {<<i>> : i \in 0..(Len(lib) - 1)}
AlbumCoords(lib) ==
    UNION {{<<i, j>> : j \in 0..(Len(At(lib, i).albums) - 1)} : i \in 0..(Len(lib) - 1)}
TrackCoords(lib) ==
    UNION {{<<c[1], c[2], k>> :
                k \in 0..(Len(At(At(lib, c[1]).albums, c[2]).tracks) - 1)} :
           c \in AlbumCoords(lib)}

\* C17: the three indices hold exactly the coordinates of the library, each
\* once and with the title of the record it locates; so every coordinate a
\* search returns indexes a record, and a title query with the title of a
\* track returns the coordinate of that track.
C17_IndicesHoldCoordinates ==
    LET lib == lib_cols.artists.items
        a   == fuzzy_searcher.artists.index
        b   == fuzzy_searcher.albums.index
        t   == fuzzy_searcher.tracks.index
    IN  /\ IndexKeys(a) = ArtistCoords(lib) /\ Len(a) = Cardinality(ArtistCoords(lib))
        /\ IndexKeys(b) = AlbumCoords(lib) /\ Len(b) = Cardinality(AlbumCoords(lib))
        /\ IndexKeys(t) = TrackCoords(lib) /\ Len(t) = Cardinality(TrackCoords(lib))
        /\ \A n \in 1..Len(a) : a[n].text = At(lib, a[n].key[1]).title
        /\ \A n \in 1..Len(b) : b[n].text = At(At(lib, b[n].key[1]).albums, b[n].key[2]).title
        /\ \A n \in 1..Len(t) :
              t[n].text = At(At(At(lib, t[n].key[1]).albums, t[n].key[2]).tracks,
                             t[n].key[3]).title
        /\ \A n \in 1..Len(result.keys) : indexable(result.keys[n], lib)
        /\ (result.kind = "Tracks" /\ query.tag = "Title") =>
              \A c \in TrackCoords(lib) :
                  At(At(At(lib, c[1]).albums, c[2]).tracks, c[3]).title = query.s
                      => \E n \in 1..Len(result.keys) : result.keys[n] = c

\* the title "one" is searched in the library of four artists: the three
\* tracks of that title are found, next to what the similarity lets through
C17_Witness ==
    /\ query = Term("Title", sone)
    /\ result.kind = "Tracks"
    /\ Len(lib_cols.artists.items) = 4
    /\ {<<0, 0, 0>>, <<0, 1, 0>>, <<1, 0, 0>>}
           \subseteq {result.keys[n] : n \in 1..Len(result.keys)}
    /\ extras # {}

\* the three channels are drained and both threads live
Quiescent == tx = <<>> /\ ptx = <<>> /\ rx = <<>> /\ audio_pc = "run" /\ ui_pc = "run"

\* C18: when the controller and the engine are quiescent they agree: a
\* track the engine is Playing or Paused on is now_playing, and after a
\* clear_queue that was processed the engine is Idle.
C18_QuiescentAgreement ==
    Quiescent =>
        /\ engine_state(sink) \in {"Playing", "Paused"} => sink.source = Some(now_playing)
        /\ play_last.op = "clear_queue" => engine_state(sink) = "Idle"

\* the last controller operation was on_enter on an album: in the album
\* column of the library tab, or on an album of the search results with an
\* empty search input
EnteredAlbum ==
    /\ play_last.op = "on_enter"
    /\ ui_pc = "run"
    /\ \/ tabs_index = 1 /\ lib_cols.current_active = 1
       \/ /\ tabs_index = 2
          /\ play_last.input = sempty
          /\ search_select < Len(play_last.results)
          /\ At(play_last.results, search_select).kind = "Album"

\* the album on_enter was given
EnteredItem ==
    IF tabs_index = 1 THEN selected_item(lib_cols.albums)
    ELSE At(play_last.results, search_select).item

\* the albums of a library
LibraryAlbums(lib) == {At(At(lib, c[1]).albums, c[2]) : c \in AlbumCoords(lib)}

\* C19: on_enter on an album sends the first track of the album and makes
\* it now_playing, puts the other tracks at the head of the queue in album
\* order ahead of what the queue held, and leaves the album in the library
\* columns and in the search results as it was.
C19_EnterAlbum ==
    EnteredAlbum =>
        /\ sent = Some(Head(EnteredItem.tracks))
        /\ now_playing = Head(EnteredItem.tracks)
        /\ queue.tracks = Tail(EnteredItem.tracks) \o play_last.pre.tracks
        /\ queue.total_time = SumDurations(queue.tracks)
        /\ search_results = play_last.results
        /\ EnteredItem \in LibraryAlbums(lib_cols.artists.items)
        /\ \A n \in 1..Len(lib_cols.albums.items) :
              lib_cols.albums.items[n] \in LibraryAlbums(lib_cols.artists.items)

\* the album X of two tracks was entered in the library tab while a track
\* was queued: its second track is at the head, ahead of that track
C19_Witness ==
    /\ EnteredAlbum
    /\ tabs_index = 1
    /\ play_last.pre.tracks # <<>>
    /\ EnteredItem.tracks = <<tA1, tA2>>
    /\ queue.tracks = <<tA2>> \o play_last.pre.tracks

\* the album of three tracks was entered: the second and third track are
\* queued in album order
C19_WitnessOrder ==
    /\ EnteredAlbum
    /\ EnteredItem.tracks = <<tA1, tA2, tA4>>
    /\ queue.tracks = <<tA2, tA4>>

\* an album of the search results was entered
C19_WitnessSearch ==
    /\ EnteredAlbum
    /\ tabs_index = 2
    /\ sent = Some(tA1)
    /\ queue.tracks = <<tA2>>

\* the tracks of an artist in library order: the order in which
\* add_to_queue appends them
ArtistTracks(artist) == add_all_albums(SonikQueue_new, artist.albums).tracks

\* C20: add_to_front with the artist column active places all tracks of the
\* selected artist at the head of the queue in library order, ahead of the
\* unchanged previous contents.
C20_ArtistToFront ==
    (ui_last.op = "add_to_front" /\ ui_last.tab = 1 /\ ui_last.col = 0)
        => queue.tracks = ArtistTracks(selected_item(lib_cols.artists)) \o ui_last.pre.tracks

----------------------------------------------------------------------------
\* the column that is active, as a list
ActiveColumn(lc) ==
    IF lc.current_active = 0 THEN lc.artists
    ELSE IF lc.current_active = 1 THEN lc.albums
    ELSE lc.tracks

\* the columns are consistent: the active column is one of the three, each
\* selection is within its list, and the album and track columns list the
\* albums of the selected artist and the tracks of the selected album
ColumnsConsistent(lc) ==
    /\ lc.current_active \in {0, 1, 2}
    /\ lc.artists.selected \in 0..(Len(lc.artists.items) - 1)
    /\ lc.albums.selected \in 0..(Len(lc.albums.items) - 1)
    /\ lc.tracks.selected \in 0..(Len(lc.tracks.items) - 1)
    /\ lc.albums.items = At(lc.artists.items, lc.artists.selected).albums
    /\ lc.tracks.items = At(lc.albums.items, lc.albums.selected).tracks

\* C21: after any sequence of switch_left, switch_right, on_up and on_down
\* on a library whose artists all have an album and whose albums all have a
\* track, the columns are consistent, and on_up and on_down move the
\* selection of the active column by one, wrapping around at the ends.
C21_NavigationConsistent ==
    /\ []ColumnsConsistent(lib_cols)
    /\ [][/\ lib_cols'.artists.items = lib_cols.artists.items
          /\ (ui_last'.op = "on_down" /\ lib_cols' # lib_cols) =>
                /\ lib_cols'.current_active = lib_cols.current_active
                /\ ActiveColumn(lib_cols').selected =
                      IF ActiveColumn(lib_cols).selected = Len(ActiveColumn(lib_cols).items) - 1
                      THEN 0 ELSE ActiveColumn(lib_cols).selected + 1
          /\ (ui_last'.op = "on_up" /\ lib_cols' # lib_cols) =>
                /\ lib_cols'.current_active = lib_cols.current_active
                /\ ActiveColumn(lib_cols').selected =
                      IF ActiveColumn(lib_cols).selected = 0
                      THEN Len(ActiveColumn(lib_cols).items) - 1
                      ELSE ActiveColumn(lib_cols).selected - 1]_vars

\* on_down in the track column of the album of three tracks has wrapped
\* around from the last track to the first
C21_Witness ==
    /\ ui_last.op = "on_down"
    /\ ui_last.col = 2
    /\ Len(lib_cols.tracks.items) = 3
    /\ lib_cols.tracks.selected = 0
    /\ ColumnsConsistent(lib_cols)

\* on_up in the artist column has wrapped around to the last artist, and
\* the other two columns were refreshed
C21_WitnessUp ==
    /\ ui_last.op = "on_up"
    /\ ui_last.col = 0
    /\ lib_cols.artists.selected = 1
    /\ lib_cols.albums.items = At(Database, 1).albums
    /\ lib_cols.tracks.items = <<tB1>>


----------------------------------------------------------------------------
\* C22: the search selection is always usable.  In the search tab, on_enter
\* and add_to_queue never read search_results[search_select] out of bounds,
\* and on_up_search and on_down_search neither underflow nor divide by
\* zero: none of the four panics, and search_select never wraps below zero.

\* search_select holds a value it can only have wrapped to
Underflowed == search_select >= usize_MAX - MaxBelow

SelectionPanicked ==
    /\ ui_pc = "panic"
    /\ play_last.op \in {"on_enter", "add_to_queue", "on_up_search", "on_down_search"}

C22_SelectionUsable ==
    tabs_index = 2 => ~SelectionPanicked /\ ~Underflowed

\* the ways the selection fails: add_to_queue before any result, the down
\* key on an empty list, the up key on an empty list in either build, and
\* on_enter with a selection that a shorter result list left behind
C22_EmptyEnqueue ==
    ui_pc = "panic" /\ play_last.op = "add_to_queue" /\ search_results = <<>>

C22_DownDividesByZero ==
    ui_pc = "panic" /\ play_last.op = "on_down_search" /\ search_results = <<>>

C22_UpUnderflowPanics ==
    ui_pc = "panic" /\ play_last.op = "on_up_search" /\ overflow_checks

C22_UpUnderflowWraps ==
    ui_pc = "run" /\ play_last.op = "on_up_search" /\ search_select = usize_MAX

C22_StaleSelection ==
    /\ ui_pc = "panic"
    /\ play_last.op = "on_enter"
    /\ search_results # <<>>
    /\ search_select >= Len(search_results)
    /\ ~Underflowed

====
